---- MODULE Spec2Model ----
(***************************************************************************)
(* scan_nmap_discord.py: one invocation of main() scans the ports of the   *)
(* target, diffs them against the persisted port list, alerts and saves;   *)
(* then does the same for the live hosts of the subnet.                    *)
(*                                                                         *)
(* A Python string is modelled as the sequence of its lexemes (a lexeme is *)
(* a TLA+ string such as "Ports:", "/", "open", "2", " ").  The lexemes    *)
(* used are prefix-free, so two lexeme sequences are equal exactly when    *)
(* the strings they spell are equal, and substring search for a lexeme is  *)
(* membership of the lexeme in the sequence.                               *)
(***************************************************************************)
EXTENDS Integers, Sequences, FiniteSets, TLC

(* ---------------------------------------------------------------------- *)
(* Bounds of the model                                                    *)
(* ---------------------------------------------------------------------- *)
\* number of distinct open ports the scanned target may show
NumPorts == 2
\* number of distinct live hosts the scanned subnet may show
NumHosts == 2
\* longest raw text (in lexemes) handed to the parsers in SpecParse
MaxTextLen == 5

(* ---------------------------------------------------------------------- *)
(* Python str helpers                                                     *)
(* ---------------------------------------------------------------------- *)
Whitespace == {" ", "\n", "\t"}

\* decimal digits accepted by int()
DigitValue(t) ==
    CASE t = "0" -> 0 [] t = "1" -> 1 [] t = "2" -> 2 [] t = "3" -> 3
      [] t = "4" -> 4 [] t = "5" -> 5 [] t = "6" -> 6 [] t = "7" -> 7
      [] t = "8" -> 8 [] t = "9" -> 9 [] OTHER -> -1

\* str.split(sep): every occurrence of sep cuts, empty pieces are kept
RECURSIVE str_split(_, _)
str_split(s, sep) ==
    IF \A i \in 1..Len(s) : s[i] /= sep
    THEN <<s>>
    ELSE LET k == CHOOSE i \in 1..Len(s) :
                      s[i] = sep /\ \A j \in 1..(i - 1) : s[j] /= sep
         IN  <<SubSeq(s, 1, k - 1)>> \o str_split(SubSeq(s, k + 1, Len(s)), sep)

\* str.splitlines(): cut at line ends; no empty last line
splitlines(s) ==
    LET pieces == str_split(s, "\n")
    IN  IF pieces[Len(pieces)] = <<>>
        THEN SubSeq(pieces, 1, Len(pieces) - 1)
        ELSE pieces

\* str.strip(): drop leading and trailing whitespace
strip(s) ==
    LET keep == {i \in 1..Len(s) : s[i] \notin Whitespace}
    IN  IF keep = {} THEN <<>>
        ELSE LET lo == CHOOSE i \in keep : \A j \in keep : i <= j
                 hi == CHOOSE i \in keep : \A j \in keep : j <= i
             IN  SubSeq(s, lo, hi)

\* str.split() without separator: words between runs of whitespace
RECURSIVE split_ws(_)
split_ws(s) ==
    LET t == strip(s)
    IN  IF t = <<>> THEN <<>>
        ELSE IF \A i \in 1..Len(t) : t[i] \notin Whitespace
        THEN <<t>>
        ELSE LET k == CHOOSE i \in 1..Len(t) :
                          t[i] \in Whitespace
                          /\ \A j \in 1..(i - 1) : t[j] \notin Whitespace
             IN  <<SubSeq(t, 1, k - 1)>> \o split_ws(SubSeq(t, k + 1, Len(t)))

\* int(s) succeeds on an optional-whitespace-wrapped non-empty digit string
int_ok(s) ==
    LET t == strip(s)
    IN  t /= <<>> /\ \A i \in 1..Len(t) : DigitValue(t[i]) >= 0

RECURSIVE digits_value(_)
digits_value(t) ==
    IF t = <<>> THEN 0
    ELSE 10 * digits_value(SubSeq(t, 1, Len(t) - 1)) + DigitValue(t[Len(t)])

int(s) == digits_value(strip(s))

\* code point order of the lexemes that can occur in a host token
LexemeRank(t) ==
    CASE t = "\t" -> 1 [] t = "\n" -> 2 [] t = " " -> 3 [] t = "()" -> 4
      [] t = "10.0.0.5" -> 5 [] t = "10.0.0.6" -> 6 [] t = "10.0.0.7" -> 7
      [] t = "Down" -> 8 [] t = "Host:" -> 9 [] t = "Status:" -> 10
      [] t = "Up" -> 11 [] OTHER -> 12

\* Python's < on str
RECURSIVE str_less(_, _)
str_less(a, b) ==
    IF b = <<>> THEN FALSE
    ELSE IF a = <<>> THEN TRUE
    ELSE IF a[1] = b[1] THEN str_less(Tail(a), Tail(b))
    ELSE LexemeRank(a[1]) < LexemeRank(b[1])

\* sorted(set(xs)) for a list of int
RECURSIVE sorted_ints(_)
sorted_ints(S) ==
    IF S = {} THEN <<>>
    ELSE LET m == CHOOSE x \in S : \A y \in S : x <= y
         IN  <<m>> \o sorted_ints(S \ {m})

\* sorted(set(xs)) for a list of str
RECURSIVE sorted_strs(_)
sorted_strs(S) ==
    IF S = {} THEN <<>>
    ELSE LET m == CHOOSE x \in S : \A y \in S \ {x} : str_less(x, y)
         IN  <<m>> \o sorted_strs(S \ {m})

Range(xs) == {xs[i] : i \in 1..Len(xs)}

(* ---------------------------------------------------------------------- *)
(* parse_ports / parse_hosts                                              *)
(* A result is [raised |-> exception name or "none", value |-> list].     *)
(* ---------------------------------------------------------------------- *)
\* the "port/state/..." entries of one line carrying the Ports: marker
PortEntries(line) ==
    LET parts == strip(str_split(line, "Ports:")[2])
        ps    == str_split(parts, ",")
    IN  [i \in 1..Len(ps) |-> str_split(strip(ps[i]), "/")]

\* entries whose int(segs[0]) is evaluated
OpenEntries(line) ==
    LET es == PortEntries(line)
    IN  {es[i] : i \in {j \in 1..Len(es) : Len(es[j]) >= 2 /\ es[j][2] = <<"open">>}}

PortLines(out) ==
    LET ls == splitlines(out)
    IN  {ls[i] : i \in {j \in 1..Len(ls) : "Ports:" \in Range(ls[j])}}

parse_ports(out) ==
    LET opened == UNION {OpenEntries(l) : l \in PortLines(out)}
    IN  IF \E e \in opened : ~int_ok(e[1])
        THEN [raised |-> "ValueError", value |-> <<>>]
        ELSE [raised |-> "none", value |-> sorted_ints({int(e[1]) : e \in opened})]

\* "Status: Up" in line
HasStatusUp(line) ==
    \E i \in 1..(Len(line) - 2) :
        line[i] = "Status:" /\ line[i + 1] = " " /\ line[i + 2] = "Up"

HostLines(out) ==
    LET ls == splitlines(out)
    IN  {ls[i] : i \in {j \in 1..Len(ls) :
                          /\ ls[j] /= <<>>
                          /\ ls[j][1] = "Host:"
                          /\ HasStatusUp(ls[j])}}

parse_hosts(out) ==
    IF \E l \in HostLines(out) : Len(split_ws(l)) < 2
    THEN [raised |-> "IndexError", value |-> <<>>]
    ELSE [raised |-> "none",
          value |-> sorted_strs({split_ws(l)[2] : l \in HostLines(out)})]

(* ---------------------------------------------------------------------- *)
(* The scanned world: what nmap prints (-oG -) for a given set of open    *)
(* ports or live hosts.                                                    *)
(* ---------------------------------------------------------------------- *)
PortPool == <<22, 80, 443>>
HostPool == <<"10.0.0.5", "10.0.0.6", "10.0.0.7">>

PortIds == 1..NumPorts
HostIds == 1..NumHosts

\* decimal text of a port number, as nmap prints it
RECURSIVE format_int(_)
format_int(n) ==
    LET d == CHOOSE t \in {"0", "1", "2", "3", "4", "5", "6", "7", "8", "9"} :
                 DigitValue(t) = n % 10
    IN  IF n < 10 THEN <<d>> ELSE format_int(n \div 10) \o <<d>>

\* "22/open/tcp" or "22/closed/tcp"
PortEntryText(i, open) ==
    format_int(PortPool[i]) \o <<"/", IF i \in open THEN "open" ELSE "closed", "/", "tcp">>

RECURSIVE PortEntriesText(_, _)
PortEntriesText(i, open) ==
    IF i > NumPorts THEN <<>>
    ELSE (IF i = 1 THEN <<" ">> ELSE <<",", " ">>)
         \o PortEntryText(i, open) \o PortEntriesText(i + 1, open)

\* stdout of "nmap -p- -sV -Pn -oG - target" when the ports in `open` are open
NmapPortsOutput(open) ==
    <<"Host:", " ", "10.0.0.5", " ", "()", "\t", "Ports:">> \o PortEntriesText(1, open)
    \o <<"\n">>

RECURSIVE NmapHostLines(_, _)
NmapHostLines(i, up) ==
    IF i > NumHosts THEN <<>>
    ELSE <<"Host:", " ", HostPool[i], " ", "()", "\t", "Status:", " ",
           IF i \in up THEN "Up" ELSE "Down", "\n">>
         \o NmapHostLines(i + 1, up)

\* stdout of "nmap -sn -oG - subnet" when the hosts in `up` answer
NmapHostsOutput(up) == NmapHostLines(1, up)

\* what run_nmap_ports can return: a report per set of open ports, no output
\* at all, a report repeating a line, and a report with a damaged record
PortsOutputs ==
    {NmapPortsOutput(open) : open \in SUBSET PortIds}
    \cup {<<>>,
          NmapPortsOutput({1}) \o NmapPortsOutput({1}),
          <<"Ports:", " ", "/", "open", "/", "tcp", "\n">>}

HostsOutputs ==
    {NmapHostsOutput(up) : up \in SUBSET HostIds}
    \cup {<<>>, NmapHostsOutput({1}) \o NmapHostsOutput({1})}

\* exceptions subprocess.run raises: timeout expired, executable not found
ScanErrors == {"TimeoutExpired", "FileNotFoundError"}

(* ---------------------------------------------------------------------- *)
(* State                                                                  *)
(* ---------------------------------------------------------------------- *)
VARIABLES
    pc,                 \* position of the running main(), "done" or "failed"
    error,              \* the exception that ended the run, and where
    WEBHOOK,            \* TRUE iff DISCORD_WEBHOOK is set for this process
    ports_file,         \* the record at PREV_PORTS_FILE
    hosts_file,         \* the record at PREV_HOSTS_FILE
    out_ports, current_ports, prev_ports, new_ports, closed_ports,
    out_hosts, current_hosts, prev_hosts, new_hosts, disappeared_hosts,
    ports_sent,         \* the send_discord calls of the ports cycle in progress
    hosts_sent,         \* the send_discord calls of the hosts cycle of this run
    last_ports,         \* history: the latest ports cycle that reached its save
    last_hosts          \* history: the latest hosts cycle that reached its save

locals_ports == <<out_ports, current_ports, prev_ports, new_ports, closed_ports>>
locals_hosts == <<out_hosts, current_hosts, prev_hosts, new_hosts, disappeared_hosts>>
files == <<ports_file, hosts_file>>
history == <<last_ports, last_hosts>>
vars == <<pc, error, WEBHOOK, files, locals_ports, locals_hosts,
          ports_sent, hosts_sent, history>>

\* the characters of a lexeme; a lexeme not listed is one character
LexemeChars(l) ==
    CASE l = "10.0.0.5" -> <<"1", "0", ".", "0", ".", "0", ".", "5">>
      [] l = "10.0.0.6" -> <<"1", "0", ".", "0", ".", "0", ".", "6">>
      [] l = "10.0.0.7" -> <<"1", "0", ".", "0", ".", "0", ".", "7">>
      [] l = "Host:"    -> <<"H", "o", "s", "t", ":">>
      [] l = "Status:"  -> <<"S", "t", "a", "t", "u", "s", ":">>
      [] l = "Ports:"   -> <<"P", "o", "r", "t", "s", ":">>
      [] l = "Up"       -> <<"U", "p">>
      [] l = "Down"     -> <<"D", "o", "w", "n">>
      [] l = "open"     -> <<"o", "p", "e", "n">>
      [] l = "closed"   -> <<"c", "l", "o", "s", "e", "d">>
      [] l = "tcp"      -> <<"t", "c", "p">>
      [] l = "()"       -> <<"(", ")">>
      [] OTHER          -> <<l>>

\* the characters of a string given by its lexemes
RECURSIVE str_chars(_)
str_chars(w) == IF w = <<>> THEN <<>> ELSE LexemeChars(Head(w)) \o str_chars(Tail(w))

\* A state file is its content (shape, elems) and what open() allows on its
\* path.  Shapes: "absent" no file; "directory" the path is a directory;
\* "unknown" content that cannot be read; "invalid_json" not JSON; "no_key" a
\* JSON object without the key; "not_object" JSON that is no object;
\* "not_list" an object whose key holds a number, a boolean or null; "dict" an
\* object whose key holds an object with the keys elems; "str" an object whose
\* key holds the string of the characters elems; "snapshot" an object whose
\* key holds the list elems.
Record(shape, elems, readable, writable) ==
    [shape |-> shape, elems |-> elems, readable |-> readable, writable |-> writable]
File(shape, elems) == Record(shape, elems, TRUE, TRUE)

\* the lists save_json can have written
PortLists == {sorted_ints({PortPool[i] : i \in S}) : S \in SUBSET PortIds}
HostLists == {sorted_strs({<<HostPool[i]>> : i \in S}) : S \in SUBSET HostIds}

\* the records a first run can find: none, a directory, a file of mode 0000, a
\* file of mode 0200, readable and writable files of every shape (the key
\* holding {}, an object with the one key `key`, "", or the string `key`), and a
\* read-only (mode 0400) snapshot of the longest list
InitialRecords(lists, key) ==
    {File("absent", <<>>),
     Record("directory", <<>>, FALSE, FALSE),
     Record("unknown", <<>>, FALSE, FALSE),
     Record("unknown", <<>>, FALSE, TRUE)}
    \cup {File(sh, <<>>) : sh \in {"invalid_json", "no_key", "not_object", "not_list"}}
    \cup {File("dict", <<>>), File("dict", <<key>>)}
    \cup {File("str", <<>>), File("str", str_chars(key))}
    \cup {File("snapshot", l) : l \in lists}
    \cup {Record("snapshot", l, TRUE, FALSE) :
              l \in {m \in lists : \A q \in lists : Len(q) <= Len(m)}}

\* a value read from the record.  items is what iterating over it gives: the
\* elements of a list, the keys of an object, the one-character strings of a
\* string; a number, a boolean or null is not iterable
PyList(items) == [type |-> "list", items |-> items]
PyDict(keys) == [type |-> "dict", items |-> keys]
PyStr(chars) == [type |-> "str", items |-> [i \in 1..Len(chars) |-> <<chars[i]>>]]
NotIterable == [type |-> "scalar", items |-> <<>>]

NoError == [type |-> "none", at |-> "none"]
NoCycle == [completed |-> FALSE, observed |-> <<>>, all_closed |-> FALSE]

\* what requests.post can do: 2xx status, other status, raise
Responses == {"status_ok", "status_error", "exception"}

(* ---------------------------------------------------------------------- *)
(* File helpers                                                           *)
(* ---------------------------------------------------------------------- *)
\* variant: the existence test is inverted, so a present record is never read
load_json_AlwaysDefault(file, default) == default

\* load_json(path, default): the parsed JSON value, or default when the path
\* does not exist or open()/json.load raise
load_json(file, default) ==
    IF file.shape = "absent" THEN default
    ELSE IF file.shape = "directory" \/ ~file.readable THEN default
    ELSE IF file.shape = "invalid_json" THEN default
    ELSE file

\* data[key] in main, on what load_json returned
Subscript(data) ==
    CASE data.shape = "snapshot"   -> [raised |-> "none", value |-> PyList(data.elems)]
      [] data.shape = "dict"       -> [raised |-> "none", value |-> PyDict(data.elems)]
      [] data.shape = "str"        -> [raised |-> "none", value |-> PyStr(data.elems)]
      [] data.shape = "not_list"   -> [raised |-> "none", value |-> NotIterable]
      [] data.shape = "no_key"     -> [raised |-> "KeyError", value |-> NotIterable]
      [] data.shape = "not_object" -> [raised |-> "TypeError", value |-> NotIterable]

\* save_json({"ports"/"hosts": elems, "ts": ...}, path) on the record `file`:
\* open(path, "w") raises before anything is written, or the object replaces
\* the content; the mode of the file stays.  ts is never read back.
save_json(file, elems) ==
    IF file.shape = "directory"
    THEN [raised |-> "IsADirectoryError", file |-> file]
    ELSE IF ~file.writable
    THEN [raised |-> "PermissionError", file |-> file]
    ELSE [raised |-> "none",
          file |-> Record("snapshot", elems, file.readable, file.writable)]

(* ---------------------------------------------------------------------- *)
(* Discord alert                                                          *)
(* ---------------------------------------------------------------------- *)
\* one send_discord call: what was passed and how the delivery went.  The
\* Target/Subnet field and the Timestamp field are left out.
Call(title, fields) == [title |-> title, fields |-> fields]
Field(name, value) == [name |-> name, value |-> value]

\* variant: no try/except around requests.post
send_discord_Propagates(call, response) ==
    IF ~WEBHOOK
    THEN [raised |-> "none", delivery |-> "webhook_not_set"]
    ELSE IF response = "exception"
    THEN [raised |-> "ConnectionError", delivery |-> "raised"]
    ELSE [raised |-> "none", delivery |-> response]

\* send_discord(title, description, fields, color) when requests.post answers
\* with `response`: the exception it lets escape and the logged outcome
send_discord(call, response) ==
    IF ~WEBHOOK
    THEN [raised |-> "none", delivery |-> "webhook_not_set"]
    ELSE IF response = "exception"
    THEN [raised |-> "none", delivery |-> "error_logged"]
    ELSE [raised |-> "none", delivery |-> response]

\* the calls main makes in order, stopping at the first that raises
RECURSIVE Dispatch(_, _)
Dispatch(calls, responses) ==
    IF calls = <<>> THEN [raised |-> "none", log |-> <<>>]
    ELSE LET r     == send_discord(Head(calls), Head(responses))
             entry == [call |-> Head(calls), delivery |-> r.delivery]
         IN  IF r.raised /= "none"
             THEN [raised |-> r.raised, log |-> <<entry>>]
             ELSE LET rest == Dispatch(Tail(calls), Tail(responses))
                  IN  [raised |-> rest.raised, log |-> <<entry>> \o rest.log]

(* ---------------------------------------------------------------------- *)
(* Diff and alert policy of main                                          *)
(* ---------------------------------------------------------------------- *)
\* variant: "in" for "not in"
list_diff_Inverted(xs, ys) == SelectSeq(xs, LAMBDA x : x \in Range(ys))

\* variant: the condition is dropped
list_diff_NoFilter(xs, ys) == xs

\* [x for x in xs if x not in ys]
list_diff(xs, ys) == SelectSeq(xs, LAMBDA x : x \notin Range(ys))

\* h in s for strings: the characters of h occur in s, one after the other.
\* h is given by its lexemes, s by the one-character strings iterating it gives.
IsSubstring(h, items) ==
    LET hc == str_chars(h)
    IN  \E i \in 1..(Len(items) - Len(hc) + 1) :
            \A j \in 1..Len(hc) : items[i + j - 1] = <<hc[j]>>

\* lines 125-127 on the loaded value prev.  "p not in prev" for an int p: a
\* list compares elements, an object compares keys, which are strings and
\* never equal to an int, a string or a scalar raises TypeError.  "for p in
\* prev" raises TypeError on a scalar, and the keys or characters it gives
\* are never in the list of ints.
PortsDiff(prev, cur) ==
    IF prev.type = "scalar" \/ (prev.type = "str" /\ cur /= <<>>)
    THEN [raised |-> "TypeError", new |-> <<>>, closed |-> <<>>]
    ELSE IF prev.type = "list"
    THEN [raised |-> "none", new |-> list_diff(cur, prev.items),
                             closed |-> list_diff(prev.items, cur)]
    ELSE [raised |-> "none", new |-> cur, closed |-> prev.items]

\* lines 160-162 on the loaded value prev.  "h not in prev" for a string h: a
\* list compares elements, an object compares keys, a string tests for a
\* substring, a scalar raises TypeError.
HostsDiff(prev, cur) ==
    IF prev.type = "scalar"
    THEN [raised |-> "TypeError", new |-> <<>>, disappeared |-> <<>>]
    ELSE IF prev.type = "str"
    THEN [raised |-> "none",
          new |-> SelectSeq(cur, LAMBDA h : ~IsSubstring(h, prev.items)),
          disappeared |-> list_diff(prev.items, cur)]
    ELSE [raised |-> "none", new |-> list_diff(cur, prev.items),
                             disappeared |-> list_diff(prev.items, cur)]

\* variant: no first-run branch
PortsCalls_NoFirstRun(prev, cur) ==
    LET new    == PortsDiff(prev, cur).new
        closed == PortsDiff(prev, cur).closed
    IN  (IF new /= <<>>
         THEN <<Call("New ports detected",
                     <<Field("All open ports", cur), Field("New ports", new)>>)>>
         ELSE <<>>)
        \o
        (IF closed /= <<>>
         THEN <<Call("Ports closed",
                     <<Field("Current open ports", cur), Field("Closed ports", closed)>>)>>
         ELSE <<>>)

\* variant: "elif closed_ports" for the second "if"
PortsCalls_ElseIf(prev, cur) ==
    LET new    == PortsDiff(prev, cur).new
        closed == PortsDiff(prev, cur).closed
    IN  IF prev.items = <<>>
        THEN <<Call("First scan (ports)", <<Field("Open ports", cur)>>)>>
        ELSE IF new /= <<>>
        THEN <<Call("New ports detected",
                    <<Field("All open ports", cur), Field("New ports", new)>>)>>
        ELSE IF closed /= <<>>
        THEN <<Call("Ports closed",
                    <<Field("Current open ports", cur), Field("Closed ports", closed)>>)>>
        ELSE <<>>

\* lines 129-149: the alerts of the ports cycle
PortsCalls(prev, cur) ==
    LET new    == PortsDiff(prev, cur).new
        closed == PortsDiff(prev, cur).closed
    IN  IF prev.items = <<>>
        THEN <<Call("First scan (ports)", <<Field("Open ports", cur)>>)>>
        ELSE (IF new /= <<>>
              THEN <<Call("New ports detected",
                          <<Field("All open ports", cur), Field("New ports", new)>>)>>
              ELSE <<>>)
             \o
             (IF closed /= <<>>
              THEN <<Call("Ports closed",
                          <<Field("Current open ports", cur),
                            Field("Closed ports", closed)>>)>>
              ELSE <<>>)

\* lines 164-178: the alerts of the hosts cycle
HostsCalls(prev, cur) ==
    LET new         == HostsDiff(prev, cur).new
        disappeared == HostsDiff(prev, cur).disappeared
    IN  (IF new /= <<>>
         THEN <<Call("New hosts detected",
                     <<Field("New hosts", new), Field("All active hosts", cur)>>)>>
         ELSE <<>>)
        \o
        (IF disappeared /= <<>>
         THEN <<Call("Hosts disappeared",
                     <<Field("Disappeared hosts", disappeared),
                       Field("Current active hosts", cur)>>)>>
         ELSE <<>>)

Titles(log) == {log[i].call.title : i \in 1..Len(log)}

(* ---------------------------------------------------------------------- *)
(* main(), one action per step                                            *)
(* ---------------------------------------------------------------------- *)
Init ==
    /\ pc = "start"
    /\ error = NoError
    /\ WEBHOOK \in BOOLEAN
    /\ ports_file \in InitialRecords(PortLists, format_int(PortPool[1]))
    /\ hosts_file \in InitialRecords(HostLists, <<HostPool[1]>>)
    /\ out_ports = <<>> /\ current_ports = <<>> /\ prev_ports = PyList(<<>>)
    /\ new_ports = <<>> /\ closed_ports = <<>>
    /\ out_hosts = <<>> /\ current_hosts = <<>> /\ prev_hosts = PyList(<<>>)
    /\ new_hosts = <<>> /\ disappeared_hosts = <<>>
    /\ ports_sent = <<>>
    /\ hosts_sent = <<>>
    /\ last_ports = NoCycle
    /\ last_hosts = NoCycle

\* an exception leaves main: the process ends with a traceback
Raise(type) ==
    /\ pc' = "failed"
    /\ error' = [type |-> type, at |-> pc]

Goto(next) ==
    /\ pc' = next
    /\ UNCHANGED error

\* line 119
RunNmapPorts ==
    /\ pc = "start"
    /\ \/ \E out \in PortsOutputs : out_ports' = out /\ Goto("ports_scanned")
       \/ \E e \in ScanErrors : out_ports' = out_ports /\ Raise(e)
    /\ UNCHANGED <<WEBHOOK, files, current_ports, prev_ports, new_ports, closed_ports,
                   locals_hosts, ports_sent, hosts_sent, history>>

\* line 120
ParsePorts ==
    /\ pc = "ports_scanned"
    /\ LET r == parse_ports(out_ports)
       IN  IF r.raised = "none"
           THEN current_ports' = r.value /\ Goto("ports_parsed")
           ELSE current_ports' = current_ports /\ Raise(r.raised)
    /\ UNCHANGED <<WEBHOOK, files, out_ports, prev_ports, new_ports, closed_ports,
                   locals_hosts, ports_sent, hosts_sent, history>>

\* lines 121-122
LoadPrevPorts ==
    /\ pc = "ports_parsed"
    /\ LET r == Subscript(load_json(ports_file, File("snapshot", <<>>)))
       IN  IF r.raised = "none"
           THEN prev_ports' = r.value /\ Goto("ports_loaded")
           ELSE prev_ports' = prev_ports /\ Raise(r.raised)
    /\ UNCHANGED <<WEBHOOK, files, out_ports, current_ports, new_ports, closed_ports,
                   locals_hosts, ports_sent, hosts_sent, history>>

\* lines 124-149
NotifyPorts ==
    /\ pc = "ports_loaded"
    /\ IF PortsDiff(prev_ports, current_ports).raised /= "none"
       THEN /\ Raise(PortsDiff(prev_ports, current_ports).raised)
            /\ UNCHANGED <<new_ports, closed_ports, ports_sent>>
       ELSE /\ new_ports' = PortsDiff(prev_ports, current_ports).new
            /\ closed_ports' = PortsDiff(prev_ports, current_ports).closed
            /\ LET calls == PortsCalls(prev_ports, current_ports)
               IN  \E responses \in [1..Len(calls) -> Responses] :
                       LET d == Dispatch(calls, responses)
                       IN  /\ ports_sent' = d.log
                           /\ IF d.raised = "none" THEN Goto("ports_notified")
                              ELSE Raise(d.raised)
    /\ UNCHANGED <<WEBHOOK, files, out_ports, current_ports, prev_ports,
                   locals_hosts, hosts_sent, history>>

\* line 151
SavePorts ==
    /\ pc = "ports_notified"
    /\ LET w == save_json(ports_file, current_ports)
       IN  /\ ports_file' = w.file
           /\ IF w.raised = "none"
              THEN /\ last_ports' = [completed  |-> TRUE,
                                     observed   |-> current_ports,
                                     all_closed |-> /\ "Ports closed" \in Titles(ports_sent)
                                                    /\ current_ports = <<>>]
                   /\ Goto("ports_saved")
              ELSE /\ last_ports' = last_ports
                   /\ Raise(w.raised)
    /\ UNCHANGED <<WEBHOOK, hosts_file, locals_ports, locals_hosts,
                   ports_sent, hosts_sent, last_hosts>>

\* line 154; the ports cycle is over and its log of calls is dropped
RunNmapHosts ==
    /\ pc = "ports_saved"
    /\ \/ \E out \in HostsOutputs : out_hosts' = out /\ Goto("hosts_scanned")
       \/ \E e \in ScanErrors : out_hosts' = out_hosts /\ Raise(e)
    /\ ports_sent' = <<>>
    /\ UNCHANGED <<WEBHOOK, files, current_hosts, prev_hosts, new_hosts,
                   disappeared_hosts, locals_ports, hosts_sent, history>>

\* line 155
ParseHosts ==
    /\ pc = "hosts_scanned"
    /\ LET r == parse_hosts(out_hosts)
       IN  IF r.raised = "none"
           THEN current_hosts' = r.value /\ Goto("hosts_parsed")
           ELSE current_hosts' = current_hosts /\ Raise(r.raised)
    /\ UNCHANGED <<WEBHOOK, files, out_hosts, prev_hosts, new_hosts, disappeared_hosts,
                   locals_ports, ports_sent, hosts_sent, history>>

\* lines 156-157
LoadPrevHosts ==
    /\ pc = "hosts_parsed"
    /\ LET r == Subscript(load_json(hosts_file, File("snapshot", <<>>)))
       IN  IF r.raised = "none"
           THEN prev_hosts' = r.value /\ Goto("hosts_loaded")
           ELSE prev_hosts' = prev_hosts /\ Raise(r.raised)
    /\ UNCHANGED <<WEBHOOK, files, out_hosts, current_hosts, new_hosts,
                   disappeared_hosts, locals_ports, ports_sent, hosts_sent, history>>

\* lines 159-178
NotifyHosts ==
    /\ pc = "hosts_loaded"
    /\ IF HostsDiff(prev_hosts, current_hosts).raised /= "none"
       THEN /\ Raise(HostsDiff(prev_hosts, current_hosts).raised)
            /\ UNCHANGED <<new_hosts, disappeared_hosts, hosts_sent>>
       ELSE /\ new_hosts' = HostsDiff(prev_hosts, current_hosts).new
            /\ disappeared_hosts' = HostsDiff(prev_hosts, current_hosts).disappeared
            /\ LET calls == HostsCalls(prev_hosts, current_hosts)
               IN  \E responses \in [1..Len(calls) -> Responses] :
                       LET d == Dispatch(calls, responses)
                       IN  /\ hosts_sent' = d.log
                           /\ IF d.raised = "none" THEN Goto("hosts_notified")
                              ELSE Raise(d.raised)
    /\ UNCHANGED <<WEBHOOK, files, out_hosts, current_hosts, prev_hosts,
                   locals_ports, ports_sent, history>>

\* lines 180-183: save, log the summary, return
SaveHosts ==
    /\ pc = "hosts_notified"
    /\ LET w == save_json(hosts_file, current_hosts)
       IN  /\ hosts_file' = w.file
           /\ IF w.raised = "none"
              THEN /\ last_hosts' = [completed  |-> TRUE,
                                     observed   |-> current_hosts,
                                     all_closed |-> FALSE]
                   /\ Goto("done")
              ELSE /\ last_hosts' = last_hosts
                   /\ Raise(w.raised)
    /\ UNCHANGED <<WEBHOOK, ports_file, locals_ports, locals_hosts,
                   ports_sent, hosts_sent, last_ports>>

\* the scheduler starts the program again: a new process, the same files
Invoke ==
    /\ pc \in {"done", "failed"}
    /\ pc' = "start"
    /\ error' = NoError
    /\ WEBHOOK' \in BOOLEAN
    /\ out_ports' = <<>> /\ current_ports' = <<>> /\ prev_ports' = PyList(<<>>)
    /\ new_ports' = <<>> /\ closed_ports' = <<>>
    /\ out_hosts' = <<>> /\ current_hosts' = <<>> /\ prev_hosts' = PyList(<<>>)
    /\ new_hosts' = <<>> /\ disappeared_hosts' = <<>>
    /\ ports_sent' = <<>>
    /\ hosts_sent' = <<>>
    /\ UNCHANGED <<files, history>>

Next ==
    \/ RunNmapPorts
    \/ ParsePorts
    \/ LoadPrevPorts
    \/ NotifyPorts
    \/ SavePorts
    \/ RunNmapHosts
    \/ ParseHosts
    \/ LoadPrevHosts
    \/ NotifyHosts
    \/ SaveHosts
    \/ Invoke

Spec == Init /\ [][Next]_vars

(* ---------------------------------------------------------------------- *)
(* The parsers on arbitrary text                                          *)
(* ---------------------------------------------------------------------- *)
PortsLexemes == {"Ports:", ",", "/", "open", "2", "x", " ", "\n"}
HostsLexemes == {"Host:", "Status:", " ", "Up", "10.0.0.5", "\n"}

Texts(lexemes) == UNION {[1..n -> lexemes] : n \in 0..MaxTextLen}

InitParse ==
    /\ error = NoError
    /\ WEBHOOK = FALSE
    /\ ports_file = File("absent", <<>>)
    /\ hosts_file = File("absent", <<>>)
    /\ \/ pc = "ports_scanned" /\ out_ports \in Texts(PortsLexemes) /\ out_hosts = <<>>
       \/ pc = "hosts_scanned" /\ out_hosts \in Texts(HostsLexemes) /\ out_ports = <<>>
    /\ current_ports = <<>> /\ prev_ports = PyList(<<>>)
    /\ new_ports = <<>> /\ closed_ports = <<>>
    /\ current_hosts = <<>> /\ prev_hosts = PyList(<<>>)
    /\ new_hosts = <<>> /\ disappeared_hosts = <<>>
    /\ ports_sent = <<>>
    /\ hosts_sent = <<>>
    /\ last_ports = NoCycle
    /\ last_hosts = NoCycle

NextParse ==
    \/ ParsePorts
    \/ ParseHosts

SpecParse == InitParse /\ [][NextParse]_vars

(* ---------------------------------------------------------------------- *)
(* Vocabulary of the properties                                           *)
(* ---------------------------------------------------------------------- *)
EventKind(title) ==
    CASE title = "First scan (ports)" -> "FirstObservation"
      [] title \in {"New ports detected", "New hosts detected"} -> "Added"
      [] title \in {"Ports closed", "Hosts disappeared"} -> "Removed"

CallKinds(calls) == [i \in 1..Len(calls) |-> EventKind(calls[i].title)]
Kinds(log) == [i \in 1..Len(log) |-> EventKind(log[i].call.title)]
Deliveries(log) == {log[i].delivery : i \in 1..Len(log)}
Carried(entry) == {entry.call.fields[i].value : i \in 1..Len(entry.call.fields)}
NoDup(xs) == Cardinality(Range(xs)) = Len(xs)

DiffExact(added, removed, prev, cur) ==
    LET A == Range(prev)
        B == Range(cur)
    IN  /\ Range(added) = B \ A /\ NoDup(added)
        /\ Range(removed) = A \ B /\ NoDup(removed)
        /\ Range(added) \cap Range(removed) = {}
        /\ Range(added) \cap (A \cap B) = {}
        /\ Range(removed) \cap (A \cap B) = {}

\* Added iff added is non-empty, Removed iff removed is non-empty, in that order,
\* each carrying its changed list and the full current list
TwoWay(log, added, removed, cur) ==
    /\ Kinds(log) = (IF added /= <<>> THEN <<"Added">> ELSE <<>>)
                    \o (IF removed /= <<>> THEN <<"Removed">> ELSE <<>>)
    /\ \A i \in 1..Len(log) :
           Carried(log[i]) = {IF Kinds(log)[i] = "Added" THEN added ELSE removed, cur}

OneFirstObservation(log, cur) ==
    /\ Kinds(log) = <<"FirstObservation">>
    /\ Carried(log[1]) = {cur}

AfterPortsSave ==
    {"ports_saved", "hosts_scanned", "hosts_parsed", "hosts_loaded", "hosts_notified", "done"}

\* the cycle of a kind has reached its save in the current run
PortsCycleRan == pc \in AfterPortsSave \/ (pc = "failed" /\ error.at \in AfterPortsSave)
HostsCycleRan == pc = "done"

\* the loaded previous value is a list: the empty one, a non-empty one, xs
IsList(prev) == prev.type = "list"
NoPrevious(prev) == IsList(prev) /\ prev.items = <<>>
SomePrevious(prev) == IsList(prev) /\ prev.items /= <<>>
Previous(prev, xs) == IsList(prev) /\ prev.items = xs

\* records that are absent, unreadable, not JSON or malformed for the layout
Malformed(file) ==
    \/ file.shape \in {"absent", "directory", "unknown", "invalid_json",
                       "no_key", "not_object", "not_list", "dict", "str"}
    \/ ~file.readable

\* the diff of lines 125-127 raises on the value loaded from the record: a
\* number or null always, a string when a port is open
DiffRaises(file, cur) ==
    /\ file.readable
    /\ \/ file.shape = "not_list"
       \/ file.shape = "str" /\ cur /= <<>>

\* the load and the subscript of the ports cycle of this run are through
PortsLoaded == pc = "ports_notified" \/ (pc = "failed" /\ error.at = "ports_loaded")

\* records from which load_json and the subscript give an empty list, object
\* or string
LoadsEmpty(file) ==
    \/ file.shape \in {"absent", "directory", "invalid_json"}
    \/ ~file.readable
    \/ file.shape \in {"snapshot", "dict", "str"} /\ file.elems = <<>>

SameContent(file, elems) == file.shape = "snapshot" /\ file.elems = elems

(* ---------------------------------------------------------------------- *)
(* Properties                                                             *)
(* ---------------------------------------------------------------------- *)

\* C1: in both cycles, for a previous list and a current list, the added list
\* holds exactly the elements of current that are not in previous, the removed
\* list exactly the elements of previous that are not in current, and added,
\* removed and the unchanged part are pairwise disjoint.
C1_DiffIsSetDifference ==
    /\ (pc = "ports_notified" /\ IsList(prev_ports)) =>
           DiffExact(new_ports, closed_ports, prev_ports.items, current_ports)
    /\ (pc = "hosts_notified" /\ IsList(prev_hosts)) =>
           DiffExact(new_hosts, disappeared_hosts, prev_hosts.items, current_hosts)

C1_Witness ==
    /\ pc = "ports_notified"
    /\ IsList(prev_ports)
    /\ new_ports /= <<>>
    /\ closed_ports /= <<>>

\* C2: a ports cycle whose loaded previous list is empty raises exactly one
\* FirstObservation alert carrying the full current list, and no Added or
\* Removed alert, also when current is empty.
C2_FirstRunPorts ==
    (pc = "ports_notified" /\ NoPrevious(prev_ports))
        => OneFirstObservation(ports_sent, current_ports)

C2_Witness ==
    /\ pc = "ports_notified"
    /\ NoPrevious(prev_ports)
    /\ current_ports = <<>>
    /\ Len(ports_sent) = 1

\* C3 as stated: the hosts cycle raises the kinds of alert the ports policy
\* would raise for the same lists, and one FirstObservation carrying the full
\* current list when the previous host list is empty.
C3_HostsPolicySameAsPorts ==
    (pc = "hosts_notified" /\ IsList(prev_hosts)) =>
        /\ Kinds(hosts_sent) = CallKinds(PortsCalls(prev_hosts, current_hosts))
        /\ NoPrevious(prev_hosts) => OneFirstObservation(hosts_sent, current_hosts)

\* C4: in a cycle of either kind whose previous list is non-empty, Added is
\* raised iff added is non-empty and Removed iff removed is non-empty, each
\* carrying its changed list and the full current list; both can be raised in
\* one cycle, Added first.
C4_IndependentChecks ==
    /\ (pc = "ports_notified" /\ SomePrevious(prev_ports))
           => TwoWay(ports_sent, new_ports, closed_ports, current_ports)
    /\ (pc = "hosts_notified" /\ SomePrevious(prev_hosts))
           => TwoWay(hosts_sent, new_hosts, disappeared_hosts, current_hosts)

C4_Witness ==
    /\ pc = "ports_notified"
    /\ SomePrevious(prev_ports)
    /\ Kinds(ports_sent) = <<"Added", "Removed">>

\* C5 as stated: a cycle whose scan, parse and load are through is not ended
\* before its save, whatever the deliveries do, and after the save the state
\* file holds the just-observed current list.
C5_PersistUnconditional ==
    /\ error.at \notin {"ports_loaded", "hosts_loaded"}
    /\ pc \in AfterPortsSave => SameContent(ports_file, current_ports)
    /\ pc = "done" => SameContent(hosts_file, current_hosts)

\* C6: a cycle that observes the same list as the latest completed cycle of its
\* kind, and loads that list as its previous one, raises no Added and no
\* Removed alert, and no alert at all when that list is non-empty.
C6_NoChangeNoAlert ==
    /\ (pc = "ports_notified" /\ last_ports.completed
            /\ last_ports.observed = current_ports
            /\ Previous(prev_ports, last_ports.observed))
           => /\ Range(Kinds(ports_sent)) \cap {"Added", "Removed"} = {}
              /\ current_ports /= <<>> => ports_sent = <<>>
    /\ (pc = "hosts_notified" /\ last_hosts.completed
            /\ last_hosts.observed = current_hosts
            /\ Previous(prev_hosts, last_hosts.observed))
           => /\ Range(Kinds(hosts_sent)) \cap {"Added", "Removed"} = {}
              /\ current_hosts /= <<>> => hosts_sent = <<>>

C6_Witness ==
    /\ pc = "ports_notified"
    /\ last_ports.completed
    /\ last_ports.observed = current_ports
    /\ Previous(prev_ports, last_ports.observed)
    /\ current_ports /= <<>>
    /\ ports_sent = <<>>

\* C7 as stated: when a run is over and a scan failed in it, the failed kind
\* raised no alert and the other kind's cycle has run to its save.
C7_ScanFailureIsolated ==
    (pc = "failed" /\ error.type \in ScanErrors) =>
        /\ error.at = "start" => (ports_sent = <<>> /\ HostsCycleRan)
        /\ error.at = "ports_saved" => (hosts_sent = <<>> /\ PortsCycleRan)

\* C8 as stated: no record ends the run at the load or at the diff that reads
\* the loaded value, and a record that is absent, unreadable, not JSON or
\* malformed for the layout gives an empty previous list.
C8_LoadNeverFails ==
    /\ error.at \notin {"ports_parsed", "hosts_parsed"}
    /\ ~(error.type = "TypeError" /\ error.at \in {"ports_loaded", "hosts_loaded"})
    /\ (pc = "ports_loaded" /\ Malformed(ports_file)) => NoPrevious(prev_ports)
    /\ (pc = "hosts_loaded" /\ Malformed(hosts_file)) => NoPrevious(prev_hosts)

\* C9 as stated: parse_ports and parse_hosts never raise, return a list
\* without duplicates, and return the empty list for a text without marker.
C9_ParsersTotal ==
    /\ error.at \notin {"ports_scanned", "hosts_scanned"}
    /\ pc = "ports_parsed" =>
           /\ NoDup(current_ports)
           /\ "Ports:" \notin Range(out_ports) => current_ports = <<>>
    /\ pc = "hosts_parsed" =>
           /\ NoDup(current_hosts)
           /\ "Host:" \notin Range(out_hosts) => current_hosts = <<>>

\* C10 as stated: a ports cycle that follows a completed ports cycle, or finds
\* no record, raises FirstObservation iff that cycle persisted the empty list
\* or no record exists.
C10_FirstRunIffPersistedEmpty ==
    (pc = "ports_notified" /\ (last_ports.completed \/ ports_file.shape = "absent"))
        => ("FirstObservation" \in Range(Kinds(ports_sent))
                <=> (last_ports.completed => last_ports.observed = <<>>))

\* C10 amended: a ports cycle whose load is through raises FirstObservation
\* iff the value it loaded is empty and the diff does not raise on it: no
\* record exists, or the record cannot be read or is not JSON, or it holds an
\* empty list or object under the key, or the empty string while no port is
\* open.  A record that can be read holds, after a ports cycle that saved,
\* what that cycle observed, so FirstObservation is then raised iff that
\* observation was empty.  So right after a saved cycle that reported all
\* ports closed the only alert is FirstObservation, and newly opened ports are
\* not reported as Added.
C10_FirstRunRecurs ==
    /\ PortsLoaded =>
           ("FirstObservation" \in Range(Kinds(ports_sent))
                <=> (LoadsEmpty(ports_file) /\ ~DiffRaises(ports_file, current_ports)))
    /\ (PortsLoaded /\ last_ports.completed /\ ports_file.readable)
           => ("FirstObservation" \in Range(Kinds(ports_sent))
                   <=> last_ports.observed = <<>>)
    /\ (PortsLoaded /\ last_ports.all_closed)
           => Kinds(ports_sent) = <<"FirstObservation">>

C10_Witness ==
    /\ pc = "ports_notified"
    /\ last_ports.all_closed
    /\ current_ports /= <<>>
    /\ Kinds(ports_sent) = <<"FirstObservation">>

====
